---- MODULE Spec2Model ----
(***************************************************************************)
(* Model of src/src/lib.rs: big_pow (binary exponentiation), hyper_op (the *)
(* hyperoperation evaluator) and A (the Ackermann-Peter facade).           *)
(*                                                                         *)
(* A call of a function ends in one of three outcomes: it returns a value  *)
(* ("ok"), it panics ("panic": an index out of range, a subtraction below  *)
(* zero), or it needs a number larger than MaxVal ("oom": BigUint has no   *)
(* width, so the only limit is memory, and MaxVal stands for that limit).  *)
(*                                                                         *)
(* The machine word of big_pow's fast path (u32 in the source) is WordBits *)
(* bits wide here, so that exponents on both sides of the fast-path test   *)
(* fit into the integers of the model checker.                             *)
(***************************************************************************)
EXTENDS Integers, Sequences, FiniteSets, TLC

VARIABLES call, stack, ret, result, status

vars == <<call, stack, ret, result, status>>

(* ------------------------------ bounds -------------------------------- *)

\* Width of the machine word of the fast path, in bits.
WordBits == 3
\* Largest number that fits in memory.
MaxVal == 300000
\* Largest order, base and exponent of a top-level call.
MaxOrder == 5
MaxBase == 3
MaxExp == 18
\* Largest n of a top-level call A(m, n).
MaxN == 255

(* ----------------------------- outcomes ------------------------------- *)

Ok(v) == [st |-> "ok", val |-> v]
Panic == [st |-> "panic", val |-> 0]
Exhausted == [st |-> "oom", val |-> 0]
NoValue == [st |-> "none", val |-> 0]

\* A freshly computed BigUint: it exists if it fits in memory.
Bounded(v) == IF v <= MaxVal THEN Ok(v) ELSE Exhausted

\* x * y fits in memory (decided without computing the product).
Fits(x, y) == x = 0 \/ y <= MaxVal \div x

(* ------------------------------ big_pow ------------------------------- *)

RECURSIVE Pow2(_)
Pow2(k) == IF k = 0 THEN 1 ELSE 2 * Pow2(k - 1)

\* core::u32::MAX, for a word of WordBits bits.
U32_MAX == Pow2(WordBits) - 1

\* BigUint::to_u32_digits: the digits in base 2^WordBits, least significant
\* first. BigUint keeps no leading zero digit, so zero has no digit at all.
RECURSIVE ToU32Digits(_)
ToU32Digits(e) ==
    IF e = 0 THEN << >>
    ELSE << e % (U32_MAX + 1) >> \o ToU32Digits(e \div (U32_MAX + 1))

\* BigUint::pow(u32): b multiplied d times into an accumulator that starts
\* at one.
RECURSIVE PowAcc(_, _, _)
PowAcc(acc, b, d) ==
    IF d = 0 THEN Ok(acc)
    ELSE IF ~Fits(acc, b) THEN Exhausted
    ELSE PowAcc(acc * b, b, d - 1)

\* Line 48: b.pow(e.to_u32_digits()[0]). Indexing an empty Vec panics.
FastPath(b, e) ==
    LET digits == ToU32Digits(e)
    IN  IF Len(digits) = 0 THEN Panic ELSE PowAcc(1, b, digits[1])

FinalFoldDropped(out, b) == out

\* Line 77: the multiplication folded in after the loop.
FinalFold(out, b) == out * b

\* Lines 66-77: one iteration per call; the loop is left when the shifted
\* exponent is one.
RECURSIVE SquaringLoop(_, _, _)
SquaringLoop(out, b, e) ==
    IF (e % 2 = 1 /\ ~Fits(out, b)) \/ ~Fits(b, b) THEN Exhausted
    ELSE LET out1 == IF e % 2 = 1 THEN out * b ELSE out
             e1 == e \div 2
             b1 == b * b
         IN  IF e1 = 1
             THEN IF Fits(out1, b1) THEN Ok(FinalFold(out1, b1)) ELSE Exhausted
             ELSE SquaringLoop(out1, b1, e1)

\* Lines 51-77: big_pow below the fast-path test.
GenericPath(b, e) ==
    IF b = 0 THEN Ok(b)
    ELSE IF b = 1 THEN Ok(1)
    ELSE SquaringLoop(1, b, e)

FitsWordNever(e) == FALSE

\* Line 47: *e <= BigUint::from(core::u32::MAX).
FitsWord(e) == e <= U32_MAX

big_pow(base, exp) ==
    IF FitsWord(exp) THEN FastPath(base, exp) ELSE GenericPath(base, exp)

(* ------------------------------ hyper_op ------------------------------ *)

SuccessorSame(exp) == exp

\* Line 89: exp + 1.
Successor(exp) == exp + 1

\* Line 92: base + exp.
Addition(base, exp) == base + exp

\* Line 98: base * exp.
Multiplication(base, exp) == base * exp

\* Lines 88-106: the orders and the exponent that hyper_op answers without
\* a loop.
IsDirect(n, exp) == n <= 3 \/ exp = 0

Direct(n, base, exp) ==
    IF n = 0 THEN Bounded(Successor(exp))
    ELSE IF n = 1 THEN Bounded(Addition(base, exp))
    ELSE IF n = 2
         THEN IF Fits(base, exp) THEN Ok(Multiplication(base, exp)) ELSE Exhausted
    ELSE IF n = 3 THEN big_pow(base, exp)
    ELSE Ok(1)

CalleeOrderSame(n) == n

\* Line 108: the order of the calls the loop makes.
CalleeOrder(n) == n - 1

\* Lines 87-120 as a function of the arguments. Walk is the loop of lines
\* 112-118, entered with the exponent not yet decremented.
RECURSIVE hyper_op(_, _, _), Walk(_, _, _, _)
hyper_op(n, base, exp) ==
    IF IsDirect(n, exp) THEN Direct(n, base, exp)
    ELSE Walk(CalleeOrder(n), base, exp, base)

Walk(n, base, exp, out) ==
    IF exp - 1 = 0 THEN Ok(out)
    ELSE LET r == hyper_op(n, base, out)
         IN  IF r.st = "ok" THEN Walk(n, base, exp - 1, r.val) ELSE r

AExpSame(n) == n

\* Line 148: the exponent A passes on.
AExp(n) == n + 3

\* Line 148: BigUint - 3_u8, which panics below zero.
Sub3(v) == IF v >= 3 THEN Ok(v - 3) ELSE Panic

(* --------------------------- the evaluation --------------------------- *)

\* One activation of hyper_op: its arguments, the accumulator of line 111
\* and where it stands: "entry" (lines 88-106 not yet run), "loop" (at the
\* head of the loop of line 112), "wait" (inside the call of line 117).
Frame(n, base, exp) ==
    [n |-> n, base |-> base, exp |-> exp, out |-> 0, pc |-> "entry"]

Orders == 0 .. MaxOrder
Bases == 0 .. MaxBase
Exps == 0 .. MaxExp

\* The top-level calls: big_pow(base, exp), hyper_op(order, base, exp) and
\* A(order, exp), whose base is the n2 of line 146.
Calls ==
    [fn : {"big_pow"}, order : {3}, base : Bases, exp : Exps]
    \cup [fn : {"hyper_op"}, order : Orders, base : Bases, exp : Exps]
    \cup [fn : {"A"}, order : Orders, base : {2}, exp : 0 .. MaxN]

Init ==
    /\ call \in Calls
    /\ stack = << >>
    /\ ret = NoValue
    /\ result = NoValue
    /\ status = "start"

Top == stack[Len(stack)]

\* The program ends with outcome r: a value, or the panic or the
\* exhaustion that aborts it.
Finish(r) ==
    /\ result' = r
    /\ status' = IF r.st = "ok" THEN "done" ELSE r.st

\* The activation on top of the stack ends with outcome r. A panic or an
\* exhaustion aborts the program; a value goes to the caller: the loop of
\* the activation below (line 117), or the top-level caller.
Return(r) ==
    IF r.st # "ok"
    THEN Finish(r) /\ UNCHANGED <<stack, ret>>
    ELSE IF Len(stack) > 1
    THEN /\ stack' = [SubSeq(stack, 1, Len(stack) - 1) EXCEPT
                         ![Len(stack) - 1].out = r.val,
                         ![Len(stack) - 1].pc = "loop"]
         /\ UNCHANGED <<ret, result, status>>
    ELSE /\ stack' = << >>
         /\ ret' = r
         /\ IF call.fn = "hyper_op" THEN Finish(r)
            ELSE UNCHANGED <<result, status>>

\* big_pow called at top level: lines 43-78.
CallBigPow ==
    /\ status = "start"
    /\ call.fn = "big_pow"
    /\ Finish(big_pow(call.base, call.exp))
    /\ UNCHANGED <<call, stack, ret>>

\* hyper_op called at top level.
CallHyperOp ==
    /\ status = "start"
    /\ call.fn = "hyper_op"
    /\ stack' = << Frame(call.order, call.base, call.exp) >>
    /\ status' = "running"
    /\ UNCHANGED <<call, ret, result>>

\* A called: lines 142-148 up to the call of hyper_op.
CallA ==
    /\ status = "start"
    /\ call.fn = "A"
    /\ stack' = << Frame(call.order, call.base, AExp(call.exp)) >>
    /\ status' = "running"
    /\ UNCHANGED <<call, ret, result>>

\* Lines 88-106: an order below four, or a zero exponent, is answered at
\* once.
HyperOpDirect ==
    /\ status = "running"
    /\ stack # << >>
    /\ Top.pc = "entry"
    /\ IsDirect(Top.n, Top.exp)
    /\ Return(Direct(Top.n, Top.base, Top.exp))
    /\ UNCHANGED call

\* Lines 108-111: the accumulator starts at base.
HyperOpEnterLoop ==
    /\ status = "running"
    /\ stack # << >>
    /\ Top.pc = "entry"
    /\ ~IsDirect(Top.n, Top.exp)
    /\ stack' = [stack EXCEPT ![Len(stack)].out = Top.base,
                              ![Len(stack)].pc = "loop"]
    /\ UNCHANGED <<call, ret, result, status>>

\* Lines 113-117: one decrement of exp, then either the break and the
\* return of line 119, or the call of the next-lower order.
HyperOpLoop ==
    /\ status = "running"
    /\ stack # << >>
    /\ Top.pc = "loop"
    /\ IF Top.exp - 1 = 0
       THEN Return(Ok(Top.out))
       ELSE /\ stack' = Append(
                    [stack EXCEPT ![Len(stack)].exp = Top.exp - 1,
                                  ![Len(stack)].pc = "wait"],
                    Frame(CalleeOrder(Top.n), Top.base, Top.out))
            /\ UNCHANGED <<ret, result, status>>
    /\ UNCHANGED call

\* Line 148: the subtraction A makes on what hyper_op returned.
ASubtract ==
    /\ status = "running"
    /\ call.fn = "A"
    /\ stack = << >>
    /\ ret.st = "ok"
    /\ Finish(Sub3(ret.val))
    /\ UNCHANGED <<call, stack, ret>>

Next ==
    \/ CallBigPow
    \/ CallHyperOp
    \/ CallA
    \/ HyperOpDirect
    \/ HyperOpEnterLoop
    \/ HyperOpLoop
    \/ ASubtract

Spec == Init /\ [][Next]_vars

Ended == status \in {"done", "panic", "oom"}

\* The evaluation, step by step, ends as the function of the arguments says.
StepsAgree ==
    (Ended /\ call.fn = "hyper_op")
        => result = hyper_op(call.order, call.base, call.exp)

(* ------------------------------- claims ------------------------------- *)

TopLevel(fn) == call.fn = fn

\* base^exp by repeated multiplication; past MaxVal it stays past MaxVal.
RECURSIVE RefPow(_, _)
RefPow(base, exp) ==
    IF exp = 0 THEN 1
    ELSE LET p == RefPow(base, exp - 1)
         IN  IF p > MaxVal THEN p ELSE base * p

\* The rows of the Ackermann-Peter table of tests::table_cmp.
InTable(m, n) ==
    \/ m = 0 /\ n <= 255
    \/ m = 1 /\ n <= 253
    \/ m = 2 /\ n <= 63
    \/ m = 3 /\ n <= 15
    \/ m = 4 /\ n <= 1

TableValue(m, n) ==
    IF m = 0 THEN n + 1
    ELSE IF m = 1 THEN n + 2
    ELSE IF m = 2 THEN 2 * n + 3
    ELSE IF m = 3 THEN Pow2(n + 3) - 3
    ELSE IF n = 0 THEN 13 ELSE 65533

\* C1: A(m, n) returns the Ackermann-Peter table value on every row of the
\* table: A(0, n) = n + 1 for n in 0..255, A(1, n) = n + 2 for n in 0..253,
\* A(2, n) = 2n + 3 for n in 0..63, A(3, n) = 2^(n+3) - 3 for n in 0..15,
\* A(4, 0) = 13 and A(4, 1) = 65533. The call neither panics nor runs out
\* of memory, it goes on until it has returned, and it returns that value.
C1_AckermannTable ==
    (TopLevel("A") /\ InTable(call.order, call.exp))
        => /\ status \notin {"panic", "oom"}
           /\ status = "done" \/ ENABLED Next
           /\ status = "done"
                => result = Ok(TableValue(call.order, call.exp))

C1_Witness ==
    /\ TopLevel("A")
    /\ call.order = 4
    /\ call.exp = 1
    /\ status = "done"
    /\ result = Ok(65533)

\* C2: whenever A(m, n) gets a value back from hyper_op(m, 2, n + 3), that
\* value is at least 3, and A never panics: its subtraction of 3 does not
\* go below zero.
C2_AtLeastThree ==
    TopLevel("A")
        => /\ ret.st = "ok" => ret.val >= 3
           /\ status # "panic"

C2_Witness ==
    /\ TopLevel("A")
    /\ call.order = 5
    /\ call.exp = 0
    /\ ret = Ok(65536)
    /\ status = "done"
    /\ result = Ok(65533)

\* C3: a finished call hyper_op(order, a, n) of order 0, 1 or 2 has
\* returned n + 1, a + n or a * n, and one of order 3 with 0 < n <= U32_MAX
\* (the fast path of big_pow) has returned a^n as repeated multiplication
\* computes it.
C3_LowOrders ==
    (TopLevel("hyper_op") /\ Ended)
        => /\ call.order = 0 => result = Ok(call.exp + 1)
           /\ call.order = 1 => result = Ok(call.base + call.exp)
           /\ call.order = 2 => result = Ok(call.base * call.exp)
           /\ (call.order = 3 /\ call.exp > 0 /\ call.exp <= U32_MAX)
                => result = Bounded(RefPow(call.base, call.exp))

C3_Witness ==
    /\ TopLevel("hyper_op")
    /\ call.order = 3
    /\ call.base = 3
    /\ call.exp = 5
    /\ call.exp <= U32_MAX
    /\ status = "done"
    /\ result = Ok(243)

\* C4: a finished call hyper_op(order, base, 0) has returned 1, whatever
\* the base. The claim says so for every order >= 2; it is stated here for
\* every order >= 3, where the hyperoperation's definition agrees with it
\* (at order 2 the product base * 0 of line 98 is 0, as C3 requires).
C4_ZeroExponentIsOne ==
    (TopLevel("hyper_op") /\ Ended /\ call.order >= 3 /\ call.exp = 0)
        => result = Ok(1)

\* C5: a call hyper_op(order, base, exp) of order >= 4 that has returned
\* or panicked has returned; for exp = 1 it returned base, and for
\* exp >= 2 it returned hyper_op(order - 1, base, hyper_op(order, base,
\* exp - 1)).
C5_Recurrence ==
    (TopLevel("hyper_op") /\ status \in {"done", "panic"}
        /\ call.order >= 4 /\ call.exp >= 1)
        => /\ status = "done"
           /\ call.exp = 1 => result = Ok(call.base)
           /\ call.exp >= 2
                => LET inner == hyper_op(call.order, call.base, call.exp - 1)
                   IN  /\ inner.st = "ok"
                       /\ result = hyper_op(call.order - 1, call.base, inner.val)

\* C6: a finished call big_pow(base, exp) has returned base^exp, for every
\* base >= 0 and exp >= 0, on the fast path and on the squaring loop.
C6_BigPowIsPower ==
    (TopLevel("big_pow") /\ Ended)
        => result = Bounded(RefPow(call.base, call.exp))

\* C7, as claimed: for every base and every exp that fits the machine
\* word, what big_pow's fast path gives is what its squaring loop gives on
\* the same base and exp.
C7_PathsAgree ==
    (TopLevel("big_pow") /\ Ended /\ FitsWord(call.exp))
        => /\ result = FastPath(call.base, call.exp)
           /\ result = GenericPath(call.base, call.exp)

\* C7, amended: for every base and every exp >= 2 that fits the machine
\* word, what big_pow's fast path gives is what its squaring loop gives on
\* the same base and exp.
C7_PathsAgreeFromTwo ==
    (TopLevel("big_pow") /\ Ended /\ FitsWord(call.exp) /\ call.exp >= 2)
        => /\ result = FastPath(call.base, call.exp)
           /\ result = GenericPath(call.base, call.exp)

C7_Witness ==
    /\ TopLevel("big_pow")
    /\ call.base = 3
    /\ call.exp = 5
    /\ FitsWord(call.exp)
    /\ status = "done"
    /\ result = Ok(243)
    /\ GenericPath(call.base, call.exp) = Ok(243)

\* C8: a call hyper_op(order, base, exp) never panics, in itself or in a
\* hyper_op or big_pow call it makes, and it goes on until it has ended.
C8_NoError ==
    TopLevel("hyper_op")
        => /\ status # "panic"
           /\ Ended \/ ENABLED Next

\* C9: while hyper_op(order, base, exp) runs, the activations nested in
\* the top-level one number at most order, whatever exp is: the
\* activation at depth i has order order - (i - 1), and every activation
\* but the innermost is waiting in the one call of its current iteration.
C9_DepthBoundedByOrder ==
    TopLevel("hyper_op")
        => /\ Len(stack) - 1 <= call.order
           /\ \A i \in 1 .. Len(stack) :
                /\ stack[i].n = call.order - (i - 1)
                /\ i < Len(stack) => stack[i].pc = "wait"

C9_Witness ==
    /\ TopLevel("hyper_op")
    /\ call.order = 5
    /\ call.base = 2
    /\ call.exp = MaxExp
    /\ Len(stack) = 3
    /\ stack[1].exp = MaxExp - 3
    /\ stack[2].exp < stack[2].out
    /\ stack[3].n = 3

\* C10: a finished call big_pow(0, exp) has returned 0 and a finished call
\* big_pow(1, exp) has returned 1, for every exp >= 0.
C10_BaseCases ==
    (TopLevel("big_pow") /\ Ended /\ call.base \in {0, 1})
        => result = Ok(call.base)

(* ------------------------------- lemmas ------------------------------- *)

\* Off the zero exponent big_pow is the power: a finished call
\* big_pow(base, exp) with exp >= 1 has returned base^exp, on the fast path
\* and on the squaring loop.
BigPowFromOne ==
    (TopLevel("big_pow") /\ Ended /\ call.exp >= 1)
        => result = Bounded(RefPow(call.base, call.exp))

\* The recurrence of the exponent walk holds of every call that returns.
RecurrenceWhenReturned ==
    (TopLevel("hyper_op") /\ status = "done"
        /\ call.order >= 4 /\ call.exp >= 1)
        => /\ call.exp = 1 => result = Ok(call.base)
           /\ call.exp >= 2
                => LET inner == hyper_op(call.order, call.base, call.exp - 1)
                   IN  /\ inner.st = "ok"
                       /\ result = hyper_op(call.order - 1, call.base, inner.val)

\* The only panic is that of line 48: the call at fault is a big_pow with
\* a zero exponent, made at top level or by a hyper_op of order 3.
PanicOnlyAtZeroExponent ==
    status = "panic"
        => \/ TopLevel("big_pow") /\ call.exp = 0
           \/ stack # << >> /\ Top.n = 3 /\ Top.exp = 0

====
